---- MODULE Spec2Model ----
(***************************************************************************)
(* GitCells documentation viewer (docs/view.py).                           *)
(*                                                                         *)
(* The script checks that the pre-built documentation artifact exists,     *)
(* launches a browser, binds a TCPServer on its port and serves GET        *)
(* requests with DocHandler until it is interrupted.  The model follows    *)
(* the script statement by statement.  The environment is: the filesystem  *)
(* (the artifact may be removed or rebuilt by an external process at any   *)
(* time, atomically: a reader sees the old file, the new one, or none),    *)
(* the port (free or busy), the browser launcher (succeeds or fails), the  *)
(* clients (connect and send one request per connection, HTTP/1.0), and    *)
(* the interrupt signal, delivered while the serve loop runs.              *)
(*                                                                         *)
(* Byte strings are sequences of tokens; a request path is the sequence of *)
(* its lexical parts, so that "exactly equal" and "equal once the query    *)
(* string is stripped" are different things.                               *)
(***************************************************************************)
EXTENDS Naturals, Sequences, FiniteSets

\* Number of client connections that may be open at the same time.
NumConns == 2

Conns == 1..NumConns

(***************************************************************************)
(* Filesystem                                                              *)
(***************************************************************************)

\* os.path.exists() is False / open() raises FileNotFoundError
Absent == <<"ENOENT">>

\* Contents the external build step may give ../dist/gitcells-docs.html
ArtifactContents == { <<"doc", "v1">>, <<"doc", "v1", "v2">> }

\* The working directory after os.chdir(dirname(__file__)): the docs folder.
\* style.css is there, index.html may be, anything else is not.
WorkDirs ==
    { [n \in {"index.html", "style.css"} |->
          IF n = "style.css" THEN <<"css">> ELSE i] : i \in {Absent, <<"idx">>} }

Exists(dir, name) == name \in DOMAIN dir /\ dir[name] # Absent

(***************************************************************************)
(* Requests and responses                                                  *)
(***************************************************************************)

RootPath == <<"/">>

IndexPath == <<"/", "index.html">>

\* self.path of the requests the clients send
RequestPaths ==
    { RootPath, IndexPath,
      <<"/", "?", "v=1">>, <<"/", "index.html", "?", "v=1">>,
      <<"/", "INDEX.HTML">>, <<"/", "style.css">>, <<"/", "missing.txt">> }

\* nothing written to wfile yet
NoResp == [status |-> 0, ctype |-> "", body |-> <<>>]

IdleReq == [path |-> <<>>, hpc |-> "idle", resp |-> NoResp, clean |-> TRUE]

NoExchange == [path |-> <<>>, branch |-> "none", resp |-> NoResp, clean |-> FALSE]

NoMemo == [resp |-> NoResp, repeated |-> FALSE]

\* self.path == '/' or self.path == '/index.html'
IsDocPath_IgnoreQuery(p) ==
    \/ p = RootPath
    \/ p = IndexPath
    \/ (Len(p) >= 2 /\ p[2] = "?")
    \/ (Len(p) >= 3 /\ p[2] = "index.html" /\ p[3] = "?")

IsDocPath_RootOnly(p) == p = RootPath

IsDocPath(p) == p = RootPath \/ p = IndexPath

\* SimpleHTTPRequestHandler.translate_path: the query string is dropped
RECURSIVE StripQuery(_)
StripQuery(p) ==
    IF p = <<>> \/ Head(p) = "?" THEN <<>>
    ELSE <<Head(p)>> \o StripQuery(Tail(p))

\* SimpleHTTPRequestHandler.guess_type
GuessType(name) ==
    IF name = "index.html" \/ name = "index.htm" THEN "text/html"
    ELSE IF name = "style.css" THEN "text/css"
    ELSE "application/octet-stream"

FileResponse(dir, name) ==
    [status |-> 200, ctype |-> GuessType(name), body |-> dir[name]]

\* send_error(404, "File not found")
NotFound == [status |-> 404, ctype |-> "text/html;charset=utf-8", body |-> <<"File not found">>]

\* SimpleHTTPRequestHandler.list_directory
ListDirectory(dir) ==
    [status |-> 200, ctype |-> "text/html; charset=utf-8",
     body |-> <<"Directory listing">>
              \o SelectSeq(<<"index.html", "style.css">>, LAMBDA n : Exists(dir, n))]

\* super().do_GET(): SimpleHTTPRequestHandler.send_head + copyfile
StaticResponse(p, dir) ==
    LET q == StripQuery(p) IN
    IF Len(q) = 1
    THEN IF Exists(dir, "index.html") THEN FileResponse(dir, "index.html")
         ELSE IF Exists(dir, "index.htm") THEN FileResponse(dir, "index.htm")
         ELSE ListDirectory(dir)
    ELSE IF Exists(dir, q[2]) THEN FileResponse(dir, q[2])
         ELSE NotFound

(***************************************************************************)
(* State                                                                   *)
(***************************************************************************)
VARIABLES
    pc,          \* statement the script is at
    exitStatus,  \* <<>> while the process runs, <<n>> once it has exited with n
    stdout,      \* what print() has written
    stderr,      \* tracebacks written
    browser,     \* "none" | "opened" | "failed": outcome of webbrowser.open
    listening,   \* the TCPServer socket is bound and listening
    portBusy,    \* another process holds PORT
    artifact,    \* content of ../dist/gitcells-docs.html, or Absent
    files,       \* the working directory
    st,          \* per connection: "free" | "queued" | "handling"
    req,         \* per connection: the handler's request, position and response
    last,        \* the last exchange completed: what the client received, and
                 \* whether the filesystem has been left alone since the
                 \* request was accepted (clean)
    rootMemo     \* the first response to "/" since the filesystem last
                 \* changed, and whether "/" has been asked for again since

vars == <<pc, exitStatus, stdout, stderr, browser, listening, portBusy,
          artifact, files, st, req, last, rootMemo>>

procVars == <<pc, exitStatus, stdout, stderr, browser, listening>>

connVars == <<st, req, last, rootMemo>>

Init ==
    /\ pc = "start"
    /\ exitStatus = <<>>
    /\ stdout = <<>>
    /\ stderr = {}
    /\ browser = "none"
    /\ listening = FALSE
    /\ portBusy \in BOOLEAN
    /\ artifact \in ArtifactContents \cup {Absent}
    /\ files \in WorkDirs
    /\ st = [c \in Conns |-> "free"]
    /\ req = [c \in Conns |-> IdleReq]
    /\ last = NoExchange
    /\ rootMemo = NoMemo

(***************************************************************************)
(* The script: startup                                                     *)
(***************************************************************************)

\* os.chdir(...) and the three banner lines
Startup ==
    /\ pc = "start"
    /\ pc' = "check"
    /\ stdout' = Append(stdout, "banner")
    /\ UNCHANGED <<exitStatus, stderr, browser, listening, portBusy, artifact, files>>
    /\ UNCHANGED connVars

\* a startup that does not look at the filesystem
CheckArtifact_NoCheck ==
    /\ pc = "check"
    /\ pc' = "browser"
    /\ UNCHANGED <<exitStatus, stdout, stderr, browser, listening, portBusy, artifact, files>>
    /\ UNCHANGED connVars

\* if not os.path.exists(html_path):
CheckArtifact ==
    /\ pc = "check"
    /\ pc' = IF artifact = Absent THEN "missing" ELSE "browser"
    /\ UNCHANGED <<exitStatus, stdout, stderr, browser, listening, portBusy, artifact, files>>
    /\ UNCHANGED connVars

\* the four guidance lines, then exit(1)
ReportMissing ==
    /\ pc = "missing"
    /\ stdout' = Append(stdout, "guidance")
    /\ pc' = "exited"
    /\ exitStatus' = <<1>>
    /\ UNCHANGED <<stderr, browser, listening, portBusy, artifact, files>>
    /\ UNCHANGED connVars

\* a launcher whose failure ends the process
OpenBrowser_FailureFatal ==
    /\ pc = "browser"
    /\ \/ browser' = "opened" /\ pc' = "bind" /\ UNCHANGED exitStatus
       \/ browser' = "failed" /\ pc' = "exited" /\ exitStatus' = <<1>>
    /\ UNCHANGED <<stdout, stderr, listening, portBusy, artifact, files>>
    /\ UNCHANGED connVars

\* webbrowser.open(...): returns True or False, the result is dropped
OpenBrowser ==
    /\ pc = "browser"
    /\ \E r \in {"opened", "failed"} : browser' = r
    /\ pc' = "bind"
    /\ UNCHANGED <<exitStatus, stdout, stderr, listening, portBusy, artifact, files>>
    /\ UNCHANGED connVars

\* socketserver.TCPServer(("", PORT), DocHandler): server_bind and
\* server_activate, or OSError (address already in use), which nothing catches
Bind ==
    /\ pc = "bind"
    /\ IF portBusy
       THEN /\ pc' = "exited"
            /\ exitStatus' = <<1>>
            /\ stderr' = stderr \cup {"OSError"}
            /\ UNCHANGED listening
       ELSE /\ pc' = "bound"
            /\ listening' = TRUE
            /\ UNCHANGED <<exitStatus, stderr>>
    /\ UNCHANGED <<stdout, browser, portBusy, artifact, files>>
    /\ UNCHANGED connVars

\* try: httpd.serve_forever()
ServeForever ==
    /\ pc = "bound"
    /\ pc' = "serving"
    /\ UNCHANGED <<exitStatus, stdout, stderr, browser, listening, portBusy, artifact, files>>
    /\ UNCHANGED connVars

(***************************************************************************)
(* The serve loop and DocHandler.do_GET                                    *)
(***************************************************************************)

\* a client connects; the kernel queues the connection on the listening socket
Connect(c) ==
    /\ listening
    /\ st[c] = "free"
    /\ st' = [st EXCEPT ![c] = "queued"]
    /\ UNCHANGED <<req, last, rootMemo, portBusy, artifact, files>>
    /\ UNCHANGED procVars

\* a server that starts a handler per connection without waiting
Accept_Threaded(c) ==
    /\ pc = "serving"
    /\ st[c] = "queued"
    /\ \E p \in RequestPaths :
          req' = [req EXCEPT ![c] = [path |-> p, hpc |-> "dispatch",
                                     resp |-> NoResp, clean |-> TRUE]]
    /\ st' = [st EXCEPT ![c] = "handling"]
    /\ UNCHANGED <<last, rootMemo, portBusy, artifact, files>>
    /\ UNCHANGED procVars

\* serve_forever -> _handle_request_noblock -> process_request: the loop takes
\* the next connection only when no handler is running; the handler reads the
\* request line into self.path
Accept(c) ==
    /\ pc = "serving"
    /\ st[c] = "queued"
    /\ \A d \in Conns : st[d] # "handling"
    /\ \E p \in RequestPaths :
          req' = [req EXCEPT ![c] = [path |-> p, hpc |-> "dispatch",
                                     resp |-> NoResp, clean |-> TRUE]]
    /\ st' = [st EXCEPT ![c] = "handling"]
    /\ UNCHANGED <<last, rootMemo, portBusy, artifact, files>>
    /\ UNCHANGED procVars

\* the handler returns: the response r is what the client has received and the
\* connection is closed (one request per connection)
Complete(c, b, r) ==
    /\ st' = [st EXCEPT ![c] = "free"]
    /\ req' = [req EXCEPT ![c] = IdleReq]
    /\ last' = [path |-> req[c].path, branch |-> b, resp |-> r, clean |-> req[c].clean]
    /\ rootMemo' = IF req[c].path = RootPath /\ req[c].clean
                   THEN IF rootMemo = NoMemo
                        THEN [resp |-> r, repeated |-> FALSE]
                        ELSE [rootMemo EXCEPT !.repeated = TRUE]
                   ELSE rootMemo

\* a handler that trusts the startup check instead of looking again
DoGetDispatch_CachedCheck(c) ==
    /\ pc = "serving"
    /\ st[c] = "handling"
    /\ req[c].hpc = "dispatch"
    /\ IF IsDocPath(req[c].path)
       THEN req' = [req EXCEPT ![c].hpc = "body",
                               ![c].resp = [status |-> 200, ctype |-> "text/html", body |-> <<>>]]
       ELSE req' = [req EXCEPT ![c].hpc = "super"]
    /\ UNCHANGED <<st, last, rootMemo, portBusy, artifact, files>>
    /\ UNCHANGED procVars

\* a handler that gives up the process when the artifact has gone
DoGetDispatch_ExitWhenMissing(c) ==
    /\ pc = "serving"
    /\ st[c] = "handling"
    /\ req[c].hpc = "dispatch"
    /\ IF IsDocPath(req[c].path) /\ artifact = Absent
       THEN /\ pc' = "missing"
            /\ req' = [req EXCEPT ![c].hpc = "super"]
       ELSE /\ pc' = pc
            /\ IF IsDocPath(req[c].path)
               THEN req' = [req EXCEPT ![c].hpc = "body",
                                       ![c].resp = [status |-> 200, ctype |-> "text/html", body |-> <<>>]]
               ELSE req' = [req EXCEPT ![c].hpc = "super"]
    /\ UNCHANGED <<st, last, rootMemo, portBusy, artifact, files>>
    /\ UNCHANGED <<exitStatus, stdout, stderr, browser, listening>>

\* do_GET, the path test and the existence test, then send_response(200),
\* send_header('Content-type', 'text/html'), end_headers()
DoGetDispatch(c) ==
    /\ pc = "serving"
    /\ st[c] = "handling"
    /\ req[c].hpc = "dispatch"
    /\ IF IsDocPath(req[c].path) /\ artifact # Absent
       THEN req' = [req EXCEPT ![c].hpc = "body",
                               ![c].resp = [status |-> 200, ctype |-> "text/html", body |-> <<>>]]
       ELSE req' = [req EXCEPT ![c].hpc = "super"]
    /\ UNCHANGED <<st, last, rootMemo, portBusy, artifact, files>>
    /\ UNCHANGED procVars

\* a handler that moves the file away once it has served it
DoGetSendBody_Consume(c) ==
    /\ pc = "serving"
    /\ st[c] = "handling"
    /\ req[c].hpc = "body"
    /\ IF artifact # Absent
       THEN /\ Complete(c, "doc", [req[c].resp EXCEPT !.body = artifact])
            /\ artifact' = Absent
            /\ UNCHANGED stderr
       ELSE /\ Complete(c, "doc", req[c].resp)
            /\ stderr' = stderr \cup {"FileNotFoundError"}
            /\ UNCHANGED artifact
    /\ UNCHANGED <<portBusy, files>>
    /\ UNCHANGED <<pc, exitStatus, stdout, browser, listening>>

\* with open(html_path, 'rb') as f: self.wfile.write(f.read()); return.
\* open() raises FileNotFoundError when the file has gone: the headers are out,
\* BaseServer.handle_error prints the traceback and the connection is closed.
DoGetSendBody(c) ==
    /\ pc = "serving"
    /\ st[c] = "handling"
    /\ req[c].hpc = "body"
    /\ IF artifact # Absent
       THEN /\ Complete(c, "doc", [req[c].resp EXCEPT !.body = artifact])
            /\ UNCHANGED stderr
       ELSE /\ Complete(c, "doc", req[c].resp)
            /\ stderr' = stderr \cup {"FileNotFoundError"}
    /\ UNCHANGED <<portBusy, artifact, files>>
    /\ UNCHANGED <<pc, exitStatus, stdout, browser, listening>>

\* super().do_GET()
DoGetSuper(c) ==
    /\ pc = "serving"
    /\ st[c] = "handling"
    /\ req[c].hpc = "super"
    /\ Complete(c, "static", StaticResponse(req[c].path, files))
    /\ UNCHANGED <<portBusy, artifact, files>>
    /\ UNCHANGED procVars

(***************************************************************************)
(* Interrupt and shutdown                                                  *)
(***************************************************************************)

\* SIGINT while serve_forever runs: KeyboardInterrupt propagates out of the
\* loop; a handler in progress is abandoned and its connection shut down
Interrupt ==
    /\ pc = "serving"
    /\ pc' = "interrupted"
    /\ st' = [c \in Conns |-> IF st[c] = "handling" THEN "free" ELSE st[c]]
    /\ req' = [c \in Conns |-> IdleReq]
    /\ UNCHANGED <<exitStatus, stdout, stderr, browser, listening>>
    /\ UNCHANGED <<last, rootMemo, portBusy, artifact, files>>

\* except KeyboardInterrupt: print("Shutting down...")
HandleInterrupt ==
    /\ pc = "interrupted"
    /\ stdout' = Append(stdout, "shutdown")
    /\ pc' = "with_exit"
    /\ UNCHANGED <<exitStatus, stderr, browser, listening, portBusy, artifact, files>>
    /\ UNCHANGED connVars

\* a script that leaves the socket open
ServerClose_Leak ==
    /\ pc = "with_exit"
    /\ pc' = "end"
    /\ UNCHANGED <<exitStatus, stdout, stderr, browser, listening, portBusy, artifact, files>>
    /\ UNCHANGED connVars

\* the with statement's exit: TCPServer.__exit__ -> server_close()
ServerClose ==
    /\ pc = "with_exit"
    /\ listening' = FALSE
    /\ st' = [c \in Conns |-> "free"]
    /\ pc' = "end"
    /\ UNCHANGED <<exitStatus, stdout, stderr, browser, portBusy, artifact, files>>
    /\ UNCHANGED <<req, last, rootMemo>>

\* the script ends
ExitNormal ==
    /\ pc = "end"
    /\ pc' = "exited"
    /\ exitStatus' = <<0>>
    /\ UNCHANGED <<stdout, stderr, browser, listening, portBusy, artifact, files>>
    /\ UNCHANGED connVars

(***************************************************************************)
(* The external build step and the user, acting on the artifact            *)
(***************************************************************************)

\* the filesystem changed under the exchanges in progress or remembered
FsChanged ==
    /\ rootMemo' = NoMemo
    /\ last' = [last EXCEPT !.clean = FALSE]
    /\ req' = [c \in Conns |->
                 IF st[c] = "handling" THEN [req[c] EXCEPT !.clean = FALSE] ELSE req[c]]

RemoveArtifact ==
    /\ pc # "exited"
    /\ artifact # Absent
    /\ artifact' = Absent
    /\ FsChanged
    /\ UNCHANGED <<st, portBusy, files>>
    /\ UNCHANGED procVars

BuildArtifact(d) ==
    /\ pc # "exited"
    /\ artifact # d
    /\ artifact' = d
    /\ FsChanged
    /\ UNCHANGED <<st, portBusy, files>>
    /\ UNCHANGED procVars

(***************************************************************************)
(* Specifications                                                          *)
(***************************************************************************)

Script ==
    \/ Startup
    \/ CheckArtifact
    \/ ReportMissing
    \/ OpenBrowser
    \/ Bind
    \/ ServeForever
    \/ HandleInterrupt
    \/ ServerClose
    \/ ExitNormal

Handler ==
    \E c \in Conns :
        \/ Accept(c)
        \/ DoGetDispatch(c)
        \/ DoGetSendBody(c)
        \/ DoGetSuper(c)

Environment ==
    \/ \E c \in Conns : Connect(c)
    \/ Interrupt
    \/ RemoveArtifact
    \/ \E d \in ArtifactContents : BuildArtifact(d)

Next == Script \/ Handler \/ Environment

Spec == Init /\ [][Next]_vars

\* the interpreter runs the script's next statement, and the handler's, when
\* there is one; clients, signals and the filesystem owe nothing
LiveSpec == Spec /\ WF_vars(Script) /\ WF_vars(Handler)

(***************************************************************************)
(* Properties                                                              *)
(***************************************************************************)

DocPaths == {RootPath, IndexPath}

Printed(m) == \E i \in DOMAIN stdout : stdout[i] = m

\* the handler of c takes its dispatch step
Dispatches(c) == req[c].hpc = "dispatch" /\ req'[c].hpc \in {"body", "super"}

\* the handler of c returns and the loop goes on
Returns(c) == st[c] = "handling" /\ st'[c] = "free" /\ pc' = "serving"

\* C1: while the artifact is present, a GET of exactly "/" or "/index.html"
\* takes the special branch with 200 and Content-type text/html, its body is
\* the artifact's bytes as they are when the file is read, and a client whose
\* exchange the filesystem left alone holds exactly the current artifact.
C1_DocPathsServeArtifact ==
    /\ [][\A c \in Conns :
            (req[c].path \in DocPaths /\ artifact # Absent) =>
               /\ Dispatches(c) =>
                     /\ req'[c].hpc = "body"
                     /\ req'[c].resp = [status |-> 200, ctype |-> "text/html", body |-> <<>>]
               /\ (req[c].hpc = "body" /\ Returns(c)) =>
                     /\ last'.path = req[c].path
                     /\ last'.resp = [status |-> 200, ctype |-> "text/html", body |-> artifact]]_vars
    /\ [](last.path \in DocPaths /\ last.clean /\ artifact # Absent
            => last.resp = [status |-> 200, ctype |-> "text/html", body |-> artifact])

C1_Witness ==
    /\ pc = "serving"
    /\ last.path = IndexPath
    /\ last.clean
    /\ artifact = <<"doc", "v1", "v2">>
    /\ last.resp = [status |-> 200, ctype |-> "text/html", body |-> <<"doc", "v1", "v2">>]

\* C2: when the startup check finds the artifact absent the script goes to the
\* guidance, never has a listener or a browser, and ends with the guidance
\* printed and exit status 1.
C2_MissingArtifactExits ==
    /\ [][(pc = "check" /\ artifact = Absent /\ pc' # pc) => pc' = "missing"]_vars
    /\ [](pc = "missing" => ~listening /\ browser = "none")
    /\ [][(pc = "missing" /\ pc' # pc) =>
             /\ pc' = "exited"
             /\ exitStatus' = <<1>>
             /\ stdout' = Append(stdout, "guidance")
             /\ ~listening' /\ browser' = "none"]_vars
    /\ (pc = "missing") ~> (pc = "exited" /\ exitStatus = <<1>> /\ Printed("guidance"))
    /\ [](Printed("guidance") => pc = "exited" /\ ~listening /\ browser = "none")

C2_Witness ==
    /\ pc = "exited"
    /\ exitStatus = <<1>>
    /\ stdout = <<"banner", "guidance">>
    /\ ~listening
    /\ browser = "none"

\* the file a path names below the working directory, when it names one
NamesFile(p) == Len(p) >= 2 /\ p[2] # "?"

\* C3: for a path other than exactly "/" and "/index.html" (a query string or
\* another case included) DocHandler writes nothing itself, and the client
\* receives what the static responder produces for the path: 200 with the file's
\* bytes when the file exists, 404 when it does not.
C3_OtherPathsDelegated ==
    /\ \A c \in Conns :
          (st[c] = "handling" /\ req[c].path \notin DocPaths /\ req[c].hpc # "dispatch")
             => req[c].hpc = "super" /\ req[c].resp = NoResp
    /\ (last.path # <<>> /\ last.path \notin DocPaths) =>
          /\ last.branch = "static"
          /\ last.resp = StaticResponse(last.path, files)
          /\ NamesFile(last.path) =>
                IF Exists(files, last.path[2])
                THEN last.resp.status = 200 /\ last.resp.body = files[last.path[2]]
                ELSE last.resp.status = 404

C3_Witness ==
    /\ artifact # Absent
    /\ last.path = <<"/", "index.html", "?", "v=1">>
    /\ last.clean
    /\ last.branch = "static"
    /\ last.resp.status = 404

\* C4: an interrupt in the serve loop leads to the shutdown notice, the
\* listener released and exit status 0; nothing is accepted once the loop is
\* left, and the listener is not held once the with block is.
C4_InterruptShutsDown ==
    /\ (pc = "interrupted") ~>
          (pc = "exited" /\ exitStatus = <<0>> /\ ~listening /\ Printed("shutdown"))
    /\ [][(pc = "interrupted" /\ pc' # pc) => stdout' = Append(stdout, "shutdown")]_vars
    /\ [][pc # "serving" => \A c \in Conns : ~(st[c] = "queued" /\ st'[c] = "handling")]_vars
    /\ [](pc \in {"end", "exited"} => ~listening)
    /\ [](exitStatus = <<0>> => Printed("shutdown") /\ ~listening)

C4_Witness ==
    /\ pc = "exited"
    /\ exitStatus = <<0>>
    /\ stdout = <<"banner", "shutdown">>
    /\ ~listening
    /\ last.path # <<>>

\* C5: with the filesystem unchanged every repeated GET of "/" is answered as
\* the first one was, whatever was asked in between, and no step of a handler
\* changes the filesystem or the script's position.
C5_Idempotent ==
    /\ []((last.path = RootPath /\ last.clean /\ rootMemo # NoMemo)
             => last.resp = rootMemo.resp)
    /\ [][(\E c \in Conns : Dispatches(c) \/ Returns(c))
             => artifact' = artifact /\ files' = files /\ pc' = pc]_vars

C5_Witness ==
    /\ last.path = RootPath
    /\ last.clean
    /\ rootMemo.repeated
    /\ last.resp = rootMemo.resp
    /\ last.resp.status = 200

\* what C6 says of the launch in every case: it comes after the check has
\* passed and before the listener, and whatever its outcome the script goes on
\* to the bind
BrowserOrder ==
    /\ [][(pc' = "browser" /\ pc # "browser") => (pc = "check" /\ artifact # Absent)]_vars
    /\ [][browser' # browser => (pc = "browser" /\ browser = "none" /\ ~listening)]_vars
    /\ [](listening => browser # "none")
    /\ [][(pc = "browser" /\ pc' # pc) =>
             (pc' = "bind" /\ browser' \in {"opened", "failed"} /\ exitStatus' = <<>>)]_vars

\* C6 as stated, in the form a finite run refutes: after the launch, failed or
\* not, the script binds the port and enters the serve loop, so a run that has
\* attempted the launch ends only out of the serve loop, by interrupt.
C6_Original ==
    (browser # "none" /\ pc = "exited") => (exitStatus = <<0>> /\ Printed("shutdown"))

\* C6 as amended: after the launch, failed or not, the script goes on to bind
\* the port, and enters the serve loop when the bind succeeds; an error exit
\* after a launch is the bind's OSError, never the launch's failure.
C6_BrowserBestEffort ==
    /\ BrowserOrder
    /\ \A r \in {"opened", "failed"} :
          (pc = "bind" /\ browser = r /\ ~portBusy) ~> (pc = "serving" /\ listening)
    /\ []((pc = "exited" /\ browser # "none" /\ exitStatus # <<0>>)
             => (portBusy /\ "OSError" \in stderr /\ exitStatus = <<1>>))

C6_Witness ==
    /\ browser = "failed"
    /\ pc = "serving"
    /\ listening
    /\ exitStatus = <<>>

\* C7 as stated, in the form a finite run refutes: a run that has ended either
\* failed the artifact check ("not started") or was serving and left by
\* interrupt.
C7_Original ==
    pc = "exited" => (Printed("guidance") \/ Printed("shutdown"))

\* C7 as amended: a run that passes the artifact check reaches "serving" when
\* the port can be bound (otherwise it ends on the bind's error without ever
\* listening); the check runs once; "serving" is left only by interrupt, also
\* when the artifact is removed; "not started" and "serving" exclude each other.
C7_NoWayBack ==
    /\ (pc = "browser" /\ ~portBusy) ~> (pc = "serving")
    /\ [][pc' = "check" => pc \in {"start", "check"}]_vars
    /\ [][pc' = "missing" => pc \in {"check", "missing"}]_vars
    /\ [][(pc = "serving" /\ pc' # pc) => pc' = "interrupted"]_vars
    /\ [][(pc = "serving" /\ artifact' # artifact) => pc' = "serving"]_vars
    /\ [](Printed("guidance") => ~Printed("shutdown") /\ ~listening)
    /\ [](pc = "exited" =>
             \/ Printed("guidance")
             \/ Printed("shutdown")
             \/ (portBusy /\ "OSError" \in stderr /\ ~listening))

C7_Witness ==
    /\ pc = "serving"
    /\ artifact = Absent
    /\ last.path = RootPath
    /\ last.branch = "static"
    /\ \E c \in Conns : st[c] = "handling"

\* C8: at most one handler is in progress at any time.
C8_OneHandlerAtATime ==
    Cardinality({c \in Conns : st[c] = "handling"}) <= 1

C8_Witness ==
    \E c, d \in Conns :
        /\ st[c] = "handling"
        /\ req[c].hpc = "body"
        /\ st[d] = "queued"

\* C9: every request looks for the artifact again; with the artifact absent a
\* GET of "/" or "/index.html" leaves the special branch alone and is answered
\* by the static responder for that path (the index page, the listing, or 404)
\* while the server keeps serving.
C9_AbsentFallsThrough ==
    /\ [][\A c \in Conns :
            (req[c].path \in DocPaths /\ artifact = Absent /\ Dispatches(c)) =>
               /\ req'[c].hpc = "super"
               /\ req'[c].resp = NoResp
               /\ pc' = "serving"]_vars
    /\ [][\A c \in Conns :
            (req[c].path \in DocPaths /\ req[c].hpc = "super" /\ Returns(c)) =>
               /\ last'.branch = "static"
               /\ last'.resp =
                     IF Exists(files, "index.html")
                     THEN [status |-> 200, ctype |-> "text/html", body |-> files["index.html"]]
                     ELSE IF req[c].path = RootPath
                          THEN ListDirectory(files)
                          ELSE NotFound]_vars
    /\ []((last.path \in DocPaths /\ last.clean /\ artifact = Absent)
             => last.branch = "static")

C9_Witness ==
    /\ pc = "serving"
    /\ artifact = Absent
    /\ last.clean
    /\ last.path = IndexPath
    /\ last.branch = "static"
    /\ last.resp.status = 404

\* C10: a 200 sent by the special branch is always followed by the complete
\* bytes of an artifact, also when the file is removed or replaced between the
\* existence test and the open.
C10_NoTruncatedBody ==
    (last.branch = "doc" /\ last.resp.status = 200) => last.resp.body \in ArtifactContents

====
